---------------------------- MODULE Spec2Model ----------------------------
(***************************************************************************)
(* A model of the floor plan analyzer: floor_plan/floor_plan.py (class     *)
(* FloorPlan) as driven by process_floor_plan.py.                          *)
(*                                                                         *)
(* A character is a one-character string, a row of the grid and a room     *)
(* name are tuples of characters.  Cells are pairs <<x, y>> with the       *)
(* source's 0-based row x and column y; At(fp, x, y) reads floor_plan[x][y]*)
(* from the 1-based tuples.                                                *)
(***************************************************************************)
EXTENDS Integers, Sequences, FiniteSets, TLC

\* ------------------------------------------------------------------ bounds

\* The most lines an input file has.
MaxLines == 2

\* The most parse passes run on one FloorPlan instance.
MaxPasses == 2

\* ------------------------------------------------------------------ inputs

\* The row texts the input files are made of.
Lines ==
    { <<>>,
      <<"(", "P", ")">>,
      <<"(", "|", "(", ")">>,
      <<"P", "|", "P", "P">>,
      <<"(", "a", ")", "P">>,
      <<"|", "|", "|", "|">>,
      <<" ", "S", " ">>,
      <<"(", ")", "(", "a", ")">>,
      <<"(", "|", "S", ")">>,
      <<"S", "(", "a", ")", " ">> }

\* The contents of a readable file: up to MaxLines lines.
Contents == UNION { [1..n -> Lines] : n \in 0..MaxLines }

\* What the path given to the constructor leads to.
Files ==
    { [exists |-> FALSE, readable |-> FALSE, lines |-> <<>>],
      [exists |-> TRUE, readable |-> FALSE, lines |-> <<>>] }
    \cup { [exists |-> TRUE, readable |-> TRUE, lines |-> ls] : ls \in Contents }

\* The chair-type and wall-separator sets given to the constructor.
ChairTypeSets == { {}, {"P", "S"}, {"P", "("} }
WallSeparatorSets == { {}, {"|"}, {"|", "S"} }

\* ------------------------------------------------------------ state

VARIABLES
    file,             \* the file at file_path
    chair_types,      \* constructor argument, self.chair_types
    wall_separators,  \* constructor argument, self.wall_separators
    pc,               \* where the caller and the parse pass are
    error,            \* the exception the constructor raised
    floor_plan,       \* self.floor_plan
    rows, cols,       \* self.rows, self.cols
    visited,          \* self.visited
    room_mappings,    \* self.room_mappings
    x, y,             \* the loop indices of parse_floor_plan
    queue,            \* _bfs: queue
    chairs,           \* _bfs: chairs
    area_name,        \* _bfs: area_name
    output,           \* the lines get_room_names_sorted returned
    \* history of the run, read by the properties only
    passes,           \* parse passes completed
    snapshots,        \* room_mappings at the end of each pass
    fills,            \* the flood fills completed in the current pass
    start,            \* start cell of the flood fill in progress
    region,           \* cells the flood fill in progress has marked
    enq, deq          \* per cell: times enqueued / processed in this pass

vars == << file, chair_types, wall_separators, pc, error, floor_plan, rows, cols,
           visited, room_mappings, x, y, queue, chairs, area_name, output,
           passes, snapshots, fills, start, region, enq, deq >>

\* Python's None for a room name.  A name the pattern extracts has at least
\* one character, so the empty tuple (falsy, like None) is free to stand for it.
NoName == <<>>

\* An empty dict.
EmptyMap == [k \in {} |-> 0]

NoError == [type |-> "none", kind |-> "none"]

Cells == (0..(rows - 1)) \X (0..(cols - 1))

At(fp, cx, cy) == fp[cx + 1][cy + 1]

\* ------------------------------------------------------------ grid loader

\* str.rstrip() on a line: trailing whitespace removed.
RECURSIVE rstrip(_)
rstrip(line) ==
    IF Len(line) > 0 /\ line[Len(line)] = " "
    THEN rstrip(SubSeq(line, 1, Len(line) - 1))
    ELSE line

Spaces(n) == [i \in 1..n |-> " "]

RECURSIVE MaxOf(_)
MaxOf(S) ==
    LET m == CHOOSE m \in S : TRUE
    IN  IF S = {m} THEN m
        ELSE LET r == MaxOf(S \ {m}) IN IF m > r THEN m ELSE r

\* The body of the try block of _read_and_pad_floor_plan: the exception it
\* raises ("none" when it returns) and the grid it returns.
read_body(f) ==
    IF ~f.exists THEN [raised |-> "FileNotFoundError", grid |-> <<>>]
    ELSE IF ~f.readable THEN [raised |-> "OSError", grid |-> <<>>]
    ELSE LET stripped == [i \in 1..Len(f.lines) |-> rstrip(f.lines[i])]
         IN  IF Len(stripped) = 0
             \* max() of an empty sequence
             THEN [raised |-> "ValueError", grid |-> <<>>]
             ELSE LET max_length == MaxOf({ Len(stripped[i]) : i \in 1..Len(stripped) })
                  IN  [raised |-> "none",
                       grid |-> [i \in 1..Len(stripped) |->
                                   stripped[i] \o Spaces(max_length - Len(stripped[i]))]]

\* Mutant: the generic except clause comes first and takes every exception.
ReadAndPad_GenericFirst(f) ==
    LET r == read_body(f)
    IN  IF r.raised = "none" THEN r
        ELSE [raised |-> "FloorPlanError", grid |-> <<>>]

\* _read_and_pad_floor_plan with its two except clauses.
_read_and_pad_floor_plan(f) ==
    LET r == read_body(f)
    IN  CASE r.raised = "none" -> r
          [] r.raised = "FileNotFoundError" -> [raised |-> "FileNotFoundError", grid |-> <<>>]
          [] OTHER -> [raised |-> "FloorPlanError", grid |-> <<>>]

\* _validate_inputs: the exception raised, "none" when both sets are non-empty.
_validate_inputs(ct, ws) ==
    IF ct = {} \/ ws = {} THEN "ValueError" ELSE "none"

\* FloorPlan.__init__: the exception that leaves the constructor, as
\* [type, kind], NoError when the object is constructed.
\*   kind InvalidConfiguration: ValueError of _validate_inputs
\*   kind NotFound:   FloorPlanError "Failed to initialize FloorPlan from ..."
\*                    raised from the loader's FileNotFoundError
\*   kind LoadError:  the loader's FloorPlanError "Error reading floor plan"
\*   kind IndexError: len(self.floor_plan[0]) on a grid without rows
\*   kind EmptyPlan:  FloorPlanError "... is an empty matrix"
init_error(f, ct, ws) ==
    IF _validate_inputs(ct, ws) # "none"
    THEN [type |-> "ValueError", kind |-> "InvalidConfiguration"]
    ELSE LET r == _read_and_pad_floor_plan(f)
         IN  IF r.raised = "FileNotFoundError"
             THEN [type |-> "FloorPlanError", kind |-> "NotFound"]
             ELSE IF r.raised = "FloorPlanError"
             THEN [type |-> "FloorPlanError", kind |-> "LoadError"]
             ELSE IF Len(r.grid) = 0
             THEN [type |-> "IndexError", kind |-> "IndexError"]
             ELSE IF Len(r.grid) = 0
             THEN [type |-> "FloorPlanError", kind |-> "EmptyPlan"]
             ELSE NoError

Init ==
    /\ file \in Files
    /\ chair_types \in ChairTypeSets
    /\ wall_separators \in WallSeparatorSets
    /\ pc = "new"
    /\ error = NoError
    /\ floor_plan = <<>>
    /\ rows = 0
    /\ cols = 0
    /\ visited = EmptyMap
    /\ room_mappings = EmptyMap
    /\ x = 0
    /\ y = 0
    /\ queue = <<>>
    /\ chairs = EmptyMap
    /\ area_name = NoName
    /\ output = <<>>
    /\ passes = 0
    /\ snapshots = <<>>
    /\ fills = <<>>
    /\ start = <<0, 0>>
    /\ region = {}
    /\ enq = EmptyMap
    /\ deq = EmptyMap

\* FloorPlan(file_path, chair_types, wall_separators)
Construct ==
    /\ pc = "new"
    /\ LET e == init_error(file, chair_types, wall_separators)
           grid == _read_and_pad_floor_plan(file).grid
       IN  IF e # NoError
           THEN /\ pc' = "failed"
                /\ error' = e
                /\ UNCHANGED << floor_plan, rows, cols, visited >>
           ELSE /\ pc' = "constructed"
                /\ error' = NoError
                /\ floor_plan' = grid
                /\ rows' = Len(grid)
                /\ cols' = Len(grid[1])
                /\ visited' = [c \in (0..(Len(grid) - 1)) \X (0..(Len(grid[1]) - 1)) |-> FALSE]
    /\ room_mappings' = EmptyMap
    /\ UNCHANGED << file, chair_types, wall_separators, x, y, queue, chairs,
                    area_name, output, passes, snapshots, fills, start, region,
                    enq, deq >>

\* ------------------------------------------------- cell classification

\* Mutant: the wall-separator test is left out.
IsVisitable_IgnoresWalls(vis, cx, cy) ==
    /\ 0 <= cx /\ cx < rows
    /\ 0 <= cy /\ cy < cols
    /\ ~vis[<<cx, cy>>]

\* is_visitable(cell) against a visited matrix vis.
is_visitable(vis, cx, cy) ==
    /\ 0 <= cx /\ cx < rows
    /\ 0 <= cy /\ cy < cols
    /\ ~vis[<<cx, cy>>]
    /\ At(floor_plan, cx, cy) \notin wall_separators

\* 0-based position of the first ")" of row_str at or after position i, -1 if none.
RECURSIVE FindClose(_, _)
FindClose(row_str, i) ==
    IF i >= Len(row_str) THEN -1
    ELSE IF row_str[i + 1] = ")" THEN i
    ELSE FindClose(row_str, i + 1)

\* re.compile(r"\(([^)]+)\)").finditer(row_str), scanning from position i: the
\* non-overlapping matches from left to right, each with its span [start, end)
\* and its group 1.  A match at i needs "(" at i, then one or more characters
\* other than ")", then ")".
RECURSIVE finditer(_, _)
finditer(row_str, i) ==
    IF i >= Len(row_str) THEN <<>>
    ELSE IF row_str[i + 1] = "("
         THEN LET j == FindClose(row_str, i + 1)
              IN  IF j >= i + 2
                  THEN << [start |-> i, end |-> j + 1,
                           group |-> SubSeq(row_str, i + 2, j)] >>
                       \o finditer(row_str, j + 1)
                  ELSE finditer(row_str, i + 1)
         ELSE finditer(row_str, i + 1)

\* The loop of get_room_name over the matches: the group of the first match
\* whose span holds col.
RECURSIVE FirstMatchAt(_, _)
FirstMatchAt(matches, col) ==
    IF matches = <<>> THEN NoName
    ELSE IF Head(matches).start <= col /\ col < Head(matches).end
         THEN Head(matches).group
         ELSE FirstMatchAt(Tail(matches), col)

\* Mutant: the span test leaves out the opening parenthesis.
RECURSIVE FirstMatchAfterOpen(_, _)
FirstMatchAfterOpen(matches, col) ==
    IF matches = <<>> THEN NoName
    ELSE IF Head(matches).start < col /\ col < Head(matches).end
         THEN Head(matches).group
         ELSE FirstMatchAfterOpen(Tail(matches), col)

GetRoomName_ExcludesOpen(row_str, col) == FirstMatchAfterOpen(finditer(row_str, 0), col)

\* FloorPlan.get_room_name(row_str, y)
get_room_name(row_str, col) == FirstMatchAt(finditer(row_str, 0), col)

\* ------------------------------------------------------------- flood fill

\* Mutant: the direction up is missing.
Directions_NoUp == << <<1, 0>>, <<0, -1>>, <<0, 1>> >>

\* The four directions of _bfs, in the order the loop takes them.
Directions == << <<-1, 0>>, <<1, 0>>, <<0, -1>>, <<0, 1>> >>

\* Mutant: a neighbour is appended to the queue without being marked visited
\* (cells are marked when processed instead).
RECURSIVE Admit_NoMark(_, _, _, _, _)
Admit_NoMark(k, cx, cy, vis, q) ==
    IF k > Len(Directions) THEN [visited |-> [vis EXCEPT ![<<cx, cy>>] = TRUE], queue |-> q]
    ELSE LET nx == cx + Directions[k][1]
             ny == cy + Directions[k][2]
         IN  IF is_visitable(vis, nx, ny)
             THEN Admit_NoMark(k + 1, cx, cy, vis, Append(q, <<nx, ny>>))
             ELSE Admit_NoMark(k + 1, cx, cy, vis, q)

\* The neighbour loop of _bfs at cell (cx, cy) from direction k on: each
\* visitable neighbour is marked visited and appended to the queue.
RECURSIVE Admit(_, _, _, _, _)
Admit(k, cx, cy, vis, q) ==
    IF k > Len(Directions) THEN [visited |-> vis, queue |-> q]
    ELSE LET nx == cx + Directions[k][1]
             ny == cy + Directions[k][2]
         IN  IF is_visitable(vis, nx, ny)
             THEN Admit(k + 1, cx, cy, [vis EXCEPT ![<<nx, ny>>] = TRUE],
                        Append(q, <<nx, ny>>))
             ELSE Admit(k + 1, cx, cy, vis, q)

\* The chair tally after a cell with character cell_value is processed.
CountChair(tally, cell_value) ==
    IF cell_value \in chair_types
    THEN [tally EXCEPT ![cell_value] = @ + 1]
    ELSE tally

\* Mutant: the test that no name has been found yet is left out.
FindName_Overrides(name, cell_value, cx, cy) ==
    IF cell_value \notin chair_types /\ cell_value = "("
    THEN get_room_name(floor_plan[cx + 1], cy)
    ELSE name

\* The area name after the cell (cx, cy) with character cell_value is processed.
FindName(name, cell_value, cx, cy) ==
    IF cell_value \notin chair_types /\ name = NoName /\ cell_value = "("
    THEN get_room_name(floor_plan[cx + 1], cy)
    ELSE name

\* Mutant: a later region of the same name replaces the entry.
Merge_Overwrites(rm, name, tally) ==
    IF name # NoName
    THEN [n \in DOMAIN rm \cup {name} |-> IF n = name THEN tally ELSE rm[n]]
    ELSE rm

\* Mutant: an unnamed region is kept under the name "none".
Merge_KeepsUnnamed(rm, name, tally) ==
    LET key == IF name # NoName THEN name ELSE <<"n", "o", "n", "e">>
    IN  IF key \in DOMAIN rm
        THEN [n \in DOMAIN rm |->
                IF n = key THEN [c \in DOMAIN tally |-> rm[n][c] + tally[c]] ELSE rm[n]]
        ELSE [n \in DOMAIN rm \cup {key} |-> IF n = key THEN tally ELSE rm[n]]

\* The merge of _explore_cell: room_mappings after a flood fill returned
\* (name, tally).
Merge(rm, name, tally) ==
    IF name # NoName
    THEN IF name \in DOMAIN rm
         THEN [n \in DOMAIN rm |->
                 IF n = name
                 THEN [c \in DOMAIN rm[n] \cup DOMAIN tally |->
                         (IF c \in DOMAIN rm[n] THEN rm[n][c] ELSE 0)
                         + (IF c \in DOMAIN tally THEN tally[c] ELSE 0)]
                 ELSE rm[n]]
         ELSE [n \in DOMAIN rm \cup {name} |-> IF n = name THEN tally ELSE rm[n]]
    ELSE rm

\* ------------------------------------------------------------- parse pass

\* The cell the nested loops of parse_floor_plan take after (cx, cy).
NextCell(cx, cy) == IF cy + 1 < cols THEN <<cx, cy + 1>> ELSE <<cx + 1, 0>>

\* parse_floor_plan up to its loops: the visited matrix is reinitialized.
ParseStart ==
    /\ pc \in {"constructed", "parsed"}
    /\ passes < MaxPasses
    /\ pc' = "scan"
    /\ visited' = [c \in Cells |-> FALSE]
    /\ x' = IF cols = 0 THEN rows ELSE 0
    /\ y' = 0
    /\ fills' = <<>>
    /\ enq' = [c \in Cells |-> 0]
    /\ deq' = [c \in Cells |-> 0]
    /\ UNCHANGED << file, chair_types, wall_separators, error, floor_plan, rows,
                    cols, room_mappings, queue, chairs, area_name, output,
                    passes, snapshots, start, region >>

\* _explore_cell(x, y) on a visited cell or a wall separator: nothing to do.
ExploreSkip ==
    /\ pc = "scan"
    /\ x < rows
    /\ ~(~visited[<<x, y>>] /\ At(floor_plan, x, y) \notin wall_separators)
    /\ x' = NextCell(x, y)[1]
    /\ y' = NextCell(x, y)[2]
    /\ UNCHANGED << file, chair_types, wall_separators, pc, error, floor_plan,
                    rows, cols, visited, room_mappings, queue, chairs, area_name,
                    output, passes, snapshots, fills, start, region, enq, deq >>

\* _explore_cell(x, y) on an unvisited non-wall cell calls _bfs((x, y)), which
\* sets up the queue, the tally and marks the start cell.
BfsStart ==
    /\ pc = "scan"
    /\ x < rows
    /\ ~visited[<<x, y>>] /\ At(floor_plan, x, y) \notin wall_separators
    /\ pc' = "bfs"
    /\ queue' = << <<x, y>> >>
    /\ chairs' = [c \in chair_types |-> 0]
    /\ area_name' = NoName
    /\ visited' = [visited EXCEPT ![<<x, y>>] = TRUE]
    /\ start' = <<x, y>>
    /\ region' = { <<x, y>> }
    /\ enq' = [enq EXCEPT ![<<x, y>>] = @ + 1]
    /\ UNCHANGED << file, chair_types, wall_separators, error, floor_plan, rows,
                    cols, room_mappings, x, y, output, passes, snapshots, fills,
                    deq >>

\* One iteration of the while loop of _bfs.
BfsStep ==
    /\ pc = "bfs"
    /\ queue # <<>>
    /\ \E cell \in {Head(queue)} :
       \E cell_value \in {At(floor_plan, cell[1], cell[2])} :
       \E a \in {Admit(1, cell[1], cell[2], visited, Tail(queue))} :
       \E admitted \in {SubSeq(a.queue, Len(queue), Len(a.queue))} :
           /\ chairs' = CountChair(chairs, cell_value)
           /\ area_name' = FindName(area_name, cell_value, cell[1], cell[2])
           /\ visited' = a.visited
           /\ queue' = a.queue
           /\ region' = region \cup { admitted[i] : i \in 1..Len(admitted) }
           /\ enq' = [c \in Cells |->
                        enq[c] + Cardinality({ i \in 1..Len(admitted) : admitted[i] = c })]
           /\ deq' = [deq EXCEPT ![cell] = @ + 1]
    /\ UNCHANGED << file, chair_types, wall_separators, pc, error, floor_plan,
                    rows, cols, room_mappings, x, y, output, passes, snapshots,
                    fills, start >>

\* _bfs returns (area_name, chairs) and _explore_cell merges the result.
BfsReturn ==
    /\ pc = "bfs"
    /\ queue = <<>>
    /\ room_mappings' = Merge(room_mappings, area_name, chairs)
    /\ fills' = Append(fills, [start |-> start, cells |-> region,
                               name |-> area_name, chairs |-> chairs])
    /\ pc' = "scan"
    /\ x' = NextCell(x, y)[1]
    /\ y' = NextCell(x, y)[2]
    /\ chairs' = EmptyMap
    /\ area_name' = NoName
    /\ region' = {}
    /\ UNCHANGED << file, chair_types, wall_separators, error, floor_plan, rows,
                    cols, visited, queue, output, passes, snapshots, start, enq,
                    deq >>

\* The loops of parse_floor_plan are over: the pass is complete.
ParseEnd ==
    /\ pc = "scan"
    /\ x >= rows
    /\ pc' = "parsed"
    /\ passes' = passes + 1
    /\ snapshots' = Append(snapshots, room_mappings)
    /\ UNCHANGED << file, chair_types, wall_separators, error, floor_plan, rows,
                    cols, visited, room_mappings, x, y, queue, chairs, area_name,
                    output, fills, start, region, enq, deq >>

\* ------------------------------------------------------ output formatting

\* ord() of the characters in use.
CodePoint(ch) ==
    CASE ch = " " -> 32
      [] ch = "(" -> 40
      [] ch = ")" -> 41
      [] ch = "P" -> 80
      [] ch = "S" -> 83
      [] ch = "a" -> 97
      [] ch = "|" -> 124

\* s <= t for Python strings: lexicographic by code point.
RECURSIVE StrLeq(_, _)
StrLeq(s, t) ==
    IF s = <<>> THEN TRUE
    ELSE IF t = <<>> THEN FALSE
    ELSE IF Head(s) = Head(t) THEN StrLeq(Tail(s), Tail(t))
    ELSE CodePoint(Head(s)) < CodePoint(Head(t))

\* sorted(names)
RECURSIVE sorted(_)
sorted(S) ==
    IF S = {} THEN <<>>
    ELSE LET m == CHOOSE m \in S : \A o \in S : StrLeq(m, o)
         IN  <<m>> \o sorted(S \ {m})

\* sorted(chars, reverse=True)
RECURSIVE sorted_reverse(_)
sorted_reverse(S) ==
    IF S = {} THEN <<>>
    ELSE LET m == CHOOSE m \in S : \A o \in S : CodePoint(o) <= CodePoint(m)
         IN  <<m>> \o sorted_reverse(S \ {m})

\* _format_chair_counts(chair_counts): the "<chair>: <count>" items of the
\* line, in order, each as <<chair, count>>.
_format_chair_counts(chair_counts) ==
    LET all_chair_types == sorted_reverse(chair_types \cup DOMAIN chair_counts)
    IN  [i \in 1..Len(all_chair_types) |->
           << all_chair_types[i],
              IF all_chair_types[i] \in DOMAIN chair_counts
              THEN chair_counts[all_chair_types[i]] ELSE 0 >>]

\* The total loop of get_room_names_sorted over the rooms in names, from the
\* totals so far.
RECURSIVE AddRooms(_, _, _)
AddRooms(total_chairs, rm, names) ==
    IF names = <<>> THEN total_chairs
    ELSE AddRooms([c \in DOMAIN total_chairs |->
                     total_chairs[c]
                     + (IF c \in DOMAIN rm[Head(names)] THEN rm[Head(names)][c] ELSE 0)],
                  rm, Tail(names))

\* Mutant: the total loop misses the first room.
TotalChairs_SkipsFirst(rm) ==
    AddRooms([c \in chair_types |-> 0], rm,
             IF DOMAIN rm = {} THEN <<>> ELSE Tail(sorted(DOMAIN rm)))

\* total_chairs of get_room_names_sorted.
total_chairs(rm) == AddRooms([c \in chair_types |-> 0], rm, sorted(DOMAIN rm))

\* The lines of a room's section (or of the total): its label and its counts.
Section(label, counts) ==
    << [label |-> label, items |-> <<>>],
       [label |-> <<>>, items |-> _format_chair_counts(counts)] >>

RECURSIVE RoomSections(_, _)
RoomSections(rm, names) ==
    IF names = <<>> THEN <<>>
    ELSE Section(Head(names), rm[Head(names)]) \o RoomSections(rm, Tail(names))

TotalLabel == <<"t", "o", "t", "a", "l">>

\* get_room_names_sorted(): output_lines.
get_room_names_sorted(rm) ==
    Section(TotalLabel, total_chairs(rm)) \o RoomSections(rm, sorted(DOMAIN rm))

\* print(floor_plan.get_room_names_sorted()) of main, after a parse pass.
Report ==
    /\ pc = "parsed"
    /\ pc' = "reported"
    /\ output' = get_room_names_sorted(room_mappings)
    /\ UNCHANGED << file, chair_types, wall_separators, error, floor_plan, rows,
                    cols, visited, room_mappings, x, y, queue, chairs, area_name,
                    passes, snapshots, fills, start, region, enq, deq >>

Next ==
    \/ Construct
    \/ ParseStart
    \/ ExploreSkip
    \/ BfsStart
    \/ BfsStep
    \/ BfsReturn
    \/ ParseEnd
    \/ Report

Spec == Init /\ [][Next]_vars

\* ------------------------------------------------- notions of the properties

ValidConfiguration == chair_types # {} /\ wall_separators # {}

\* A parse pass is running or has run: the per-pass history is in place.
Parsing == pc \in {"scan", "bfs", "parsed", "reported"}

PassDone == pc \in {"parsed", "reported"}

CharAt(c) == At(floor_plan, c[1], c[2])

NonWall == { c \in Cells : CharAt(c) \notin wall_separators }

Adjacent(c, d) ==
    \/ c[1] = d[1] /\ (c[2] = d[2] + 1 \/ d[2] = c[2] + 1)
    \/ c[2] = d[2] /\ (c[1] = d[1] + 1 \/ d[1] = c[1] + 1)

\* The non-wall cells next to a cell of F (up, down, left, right).
Around(F) ==
    { d \in UNION { { <<c[1] - 1, c[2]>>, <<c[1] + 1, c[2]>>,
                      <<c[1], c[2] - 1>>, <<c[1], c[2] + 1>> } : c \in F } :
        /\ d \in Cells
        /\ CharAt(d) \notin wall_separators }

\* S with everything 4-connected to its newest cells F through non-wall cells.
RECURSIVE Grow(_, _)
Grow(S, F) ==
    LET N == Around(F) \ S
    IN  IF N = {} THEN S ELSE Grow(S \cup N, N)

\* The maximal 4-connected set of non-wall cells that holds the non-wall cell c.
Component(c) == Grow({c}, {c})

\* The sum over the rooms N of rm of the count of chair type c.
RECURSIVE RoomSum(_, _, _)
RoomSum(rm, N, c) ==
    IF N = {} THEN 0
    ELSE LET n == CHOOSE n \in N : TRUE
         IN  rm[n][c] + RoomSum(rm, N \ {n}, c)

\* The sum over the flood fills of fs that returned name n of their count of c.
RECURSIVE FillSum(_, _, _)
FillSum(fs, n, c) ==
    IF fs = <<>> THEN 0
    ELSE (IF Head(fs).name = n THEN Head(fs).chairs[c] ELSE 0)
         + FillSum(Tail(fs), n, c)

\* room_mappings as it was when the current (or last) pass began.
Base ==
    LET k == IF PassDone THEN passes - 1 ELSE passes
    IN  IF k = 0 THEN EmptyMap ELSE snapshots[k]

\* The (name) text of row_str whose span holds column col, NoName if none:
\* the span ends at the first ")" at or after col and starts at the leftmost
\* "(" that has no ")" between itself and that ")" and at least one character
\* in between.
SpanName(row_str, col) ==
    LET J == { j \in col..(Len(row_str) - 1) :
                 /\ row_str[j + 1] = ")"
                 /\ \A k \in col..(j - 1) : row_str[k + 1] # ")" }
    IN  IF J = {} THEN NoName
        ELSE LET j == CHOOSE j \in J : TRUE
                 O == { i \in 0..(j - 2) :
                          /\ row_str[i + 1] = "("
                          /\ \A k \in i..(j - 1) : row_str[k + 1] # ")" }
             IN  IF O = {} THEN NoName
                 ELSE LET i == CHOOSE i \in O : \A o \in O : i <= o
                      IN  IF i <= col THEN SubSeq(row_str, i + 2, j) ELSE NoName

\* The names of the spans a set of cells touches.
SpanNames(cells) ==
    { SpanName(floor_plan[c[1] + 1], c[2]) : c \in cells } \ {NoName}

Parens(cells) == { c \in cells : CharAt(c) = "(" }

\* ------------------------------------------------------------------ claims

\* C1: calling parse_floor_plan twice in succession on the same FloorPlan
\* leaves room_mappings after the second pass identical to room_mappings after
\* the first pass.
C1_ReparseIdentical ==
    Len(snapshots) >= 2 => snapshots[2] = snapshots[1]

\* C2: after one parse pass on a freshly constructed FloorPlan, for every chair
\* type c, the sum over all rooms of the count of c plus the c cells counted by
\* flood fills that returned no room name equals the number of grid cells whose
\* character is c and is not a wall separator.
C2_ChairsConserved ==
    (PassDone /\ passes = 1) =>
        \A c \in chair_types :
            RoomSum(room_mappings, DOMAIN room_mappings, c) + FillSum(fills, NoName, c)
            = Cardinality({ d \in NonWall : CharAt(d) = c })

C2_Witness ==
    /\ PassDone /\ passes = 1
    /\ \E c \in chair_types :
          /\ RoomSum(room_mappings, DOMAIN room_mappings, c) > 0
          /\ FillSum(fills, NoName, c) > 0

\* C3: during a parse pass a cell is visited exactly when it has been put on
\* the flood-fill queue, every cell is enqueued at most once and processed at
\* most once over the whole pass, and the queue holds only visited, not yet
\* processed cells, none of them twice.
C3_EnqueuedOnce ==
    Parsing =>
        /\ \A c \in Cells :
              /\ enq[c] <= 1
              /\ deq[c] <= enq[c]
              /\ visited[c] <=> enq[c] = 1
        /\ \A i \in 1..Len(queue) :
              /\ visited[queue[i]]
              /\ deq[queue[i]] = 0
              /\ \A j \in 1..Len(queue) : queue[i] = queue[j] => i = j

C3_Witness ==
    /\ pc = "bfs"
    /\ passes = 1
    /\ Len(queue) >= 2
    /\ \E c \in Cells : deq[c] = 1 /\ Cardinality({ d \in NonWall : Adjacent(c, d) }) >= 2

\* C4: the entry of room_mappings for a name holds, for every chair type, the
\* sum of the counts of the regions of the pass that returned that name (the
\* first tally inserted as it is, each later one added component-wise); in a
\* pass on a freshly constructed FloorPlan that is the whole entry, in a
\* repeated pass the sums are added to what the entry held when the pass began.
C4_SameNameSummed ==
    Parsing =>
        /\ DOMAIN room_mappings
             = DOMAIN Base \cup ({ fills[i].name : i \in 1..Len(fills) } \ {NoName})
        /\ \A n \in DOMAIN room_mappings :
              /\ DOMAIN room_mappings[n] = chair_types
              /\ \A c \in chair_types :
                    room_mappings[n][c]
                    = (IF n \in DOMAIN Base THEN Base[n][c] ELSE 0) + FillSum(fills, n, c)

C4_Witness ==
    /\ pc = "scan"
    /\ passes = 0
    /\ \E i, j \in 1..Len(fills) :
          /\ i < j
          /\ fills[i].name # NoName
          /\ fills[i].name = fills[j].name
          /\ fills[i].cells \cap fills[j].cells = {}
          /\ \E c \in chair_types : fills[i].chairs[c] > 0 /\ fills[j].chairs[c] > 0

\* C5: a flood fill whose region includes no "(" cell returns no room name, and
\* the step that ends it leaves room_mappings unchanged.
C5_UnnamedDiscarded ==
    [][ (pc = "bfs" /\ queue = <<>> /\ Parens(region) = {})
          => (area_name = NoName /\ room_mappings' = room_mappings) ]_vars

C5_Witness ==
    /\ pc = "scan"
    /\ fills # <<>>
    /\ Parens(fills[Len(fills)].cells) = {}
    /\ \E c \in chair_types : fills[Len(fills)].chairs[c] > 0
    /\ DOMAIN room_mappings # {}

\* C6 as claimed: a region that includes any cell of a (name) span returns the
\* name of a span it touches.  Stated for the configurations in which "(" is an
\* ordinary character, not a chair type, where the claim fails already.
C6_AnySpanCellNames ==
    "(" \notin chair_types =>
        \A i \in 1..Len(fills) :
            SpanNames(fills[i].cells) # {} => fills[i].name \in SpanNames(fills[i].cells)

\* C6 as amended: a region is named through its "(" cells only.  When "(" is
\* not a chair type and the region includes a "(" cell inside a (name) span,
\* the flood fill returns the name of such a span; otherwise it returns no name.
C6_ParenCellNames ==
    \A i \in 1..Len(fills) :
        IF "(" \notin chair_types /\ SpanNames(Parens(fills[i].cells)) # {}
        THEN fills[i].name \in SpanNames(Parens(fills[i].cells))
        ELSE fills[i].name = NoName

C6_Witness ==
    \E i, j \in 1..Len(fills) :
        /\ fills[i].name # NoName
        /\ fills[i].name \in SpanNames(Parens(fills[i].cells))
        /\ fills[i].name \in SpanNames(fills[j].cells)
        /\ Parens(fills[j].cells) = {}
        /\ fills[j].name = NoName

\* C7: with valid chair and wall sets, constructing a FloorPlan on a path that
\* does not exist fails in the loader with FileNotFoundError, which the
\* constructor hands on as a FloorPlanError of kind NotFound; no other failure
\* has that kind, no object is constructed and no parse starts.
C7_MissingFileNotFound ==
    /\ (pc # "new" /\ ValidConfiguration /\ ~file.exists) =>
          /\ pc = "failed"
          /\ error = [type |-> "FloorPlanError", kind |-> "NotFound"]
          /\ floor_plan = <<>> /\ passes = 0 /\ fills = <<>>
          /\ DOMAIN room_mappings = {}
    /\ (pc # "new" /\ ValidConfiguration /\ file.exists /\ ~file.readable) =>
          /\ pc = "failed"
          /\ error = [type |-> "FloorPlanError", kind |-> "LoadError"]
    /\ error.kind = "NotFound" => (ValidConfiguration /\ ~file.exists)

C7_Witness ==
    /\ pc = "failed"
    /\ ~file.exists
    /\ error.kind = "NotFound"

\* C8: when the input file has zero lines, the constructor fails with the
\* EmptyPlan error kind.
C8_EmptyFileEmptyPlan ==
    (pc # "new" /\ ValidConfiguration /\ file.readable /\ file.lines = <<>>) =>
        (pc = "failed" /\ error.kind = "EmptyPlan")

\* C9: get_room_names_sorted reports, after the total label, one item for
\* every configured chair type with the sum of that type's counts over all
\* rooms of room_mappings, then one section per room; with empty room_mappings
\* every total is zero and there is no room section.
C9_TotalsAndSections ==
    pc = "reported" =>
        LET n == Cardinality(DOMAIN room_mappings)
        IN  /\ Len(output) = 2 + 2 * n
            /\ output[1].label = TotalLabel
            /\ \A c \in chair_types :
                  Cardinality({ k \in 1..Len(output[2].items) :
                                  output[2].items[k]
                                  = << c, RoomSum(room_mappings, DOMAIN room_mappings, c) >> }) = 1
            /\ { output[2 * k + 1].label : k \in 1..n } = DOMAIN room_mappings
            /\ \A k \in 1..n :
                  \A c \in chair_types :
                      \E m \in 1..Len(output[2 * k + 2].items) :
                          output[2 * k + 2].items[m]
                          = << c, room_mappings[output[2 * k + 1].label][c] >>
            /\ n = 0 => \A k \in 1..Len(output[2].items) : output[2].items[k][2] = 0

C9_Witness ==
    /\ pc = "reported"
    /\ Cardinality(DOMAIN room_mappings) >= 2
    /\ \E c \in chair_types : RoomSum(room_mappings, DOMAIN room_mappings, c) > 0

\* C10: in a parse pass each flood fill visits exactly one maximal 4-connected
\* component of non-wall cells and counts the chairs of its cells, no two
\* flood fills share a cell, no wall-separator cell is ever marked visited, and
\* at the end of the pass there are as many flood fills as components and the
\* visited cells are exactly the non-wall cells.
C10_OneFillPerComponent ==
    Parsing =>
        /\ \A c \in Cells : visited[c] => CharAt(c) \notin wall_separators
        /\ \A i \in 1..Len(fills) :
              /\ fills[i].cells = Component(fills[i].start)
              /\ \A c \in chair_types :
                    fills[i].chairs[c]
                    = Cardinality({ d \in fills[i].cells : CharAt(d) = c })
              /\ \A j \in 1..Len(fills) :
                    i # j => fills[i].cells \cap fills[j].cells = {}
        /\ PassDone =>
              /\ Len(fills) = Cardinality({ Component(c) : c \in NonWall })
              /\ { c \in Cells : visited[c] } = NonWall

C10_Witness ==
    /\ pc = "parsed"
    /\ Len(fills) >= 2
    /\ NonWall # Cells
    /\ \E i \in 1..Len(fills) :
          /\ Cardinality(fills[i].cells) >= 4
          /\ fills[i].start[1] = 0
          /\ \E c \in fills[i].cells : c[1] = 0 /\ c[2] > fills[i].start[2] + 1

\* The "(" cells the flood fill in progress has processed already.
ParensProcessed == { c \in Parens(region) : deq[c] = 1 }

\* An iteration of the flood fill's loop is about to process the head of the queue.
Processing == pc = "bfs" /\ queue # <<>>

\* C11 as claimed: within one flood fill the name changes only when a "(" cell
\* is processed, and only at the first "(" cell the traversal processes: after
\* that first attempt no "(" cell sets or overrides the name.
C11_OnlyFirstParen ==
    [][ Processing =>
          /\ area_name' # area_name => CharAt(Head(queue)) = "("
          /\ ParensProcessed # {} => area_name' = area_name ]_vars

\* C11 as amended: extraction is applied exactly at the "(" cells (not a chair
\* type) processed while the region has no name yet, and the name becomes the
\* result of that attempt; every other cell leaves the name as it is, so the
\* name is the result of the first attempt that yields one and no later "("
\* cell overrides it.
C11_FirstNameFound ==
    [][ Processing =>
          IF /\ CharAt(Head(queue)) = "("
             /\ "(" \notin chair_types
             /\ area_name = NoName
          THEN area_name' = SpanName(floor_plan[Head(queue)[1] + 1], Head(queue)[2])
          ELSE area_name' = area_name ]_vars

\* A flood fill whose first attempt found nothing, that got its name at a later
\* "(" cell, and that has since processed a "(" cell of another name.
C11_Witness ==
    /\ pc = "bfs"
    /\ area_name # NoName
    /\ \E c \in ParensProcessed : SpanName(floor_plan[c[1] + 1], c[2]) = NoName
    /\ \E c \in ParensProcessed :
          SpanName(floor_plan[c[1] + 1], c[2]) \notin {NoName, area_name}
=============================================================================
